---- MODULE Spec2Model ----
(***************************************************************************)
(* Shadow-user SQL backend (keystone/identity/shadow_backends/sql.py).     *)
(* The three tables the driver writes are sets of rows; every driver       *)
(* method is one action that runs the whole call, from opening the         *)
(* session to its commit or rollback, and leaves a record of the call      *)
(* (arguments, outcome, returned value) in `last`.                         *)
(***************************************************************************)
EXTENDS Integers, FiniteSets, Sequences, TLC

VARIABLES
    user,            \* rows of table `user`
    federated_user,  \* rows of table `federated_user`
    nonlocal_user,   \* rows of table `nonlocal_user`
    days_inactive,   \* CONF.security_compliance.disable_user_account_days_inactive
    now,             \* latest reading of datetime.datetime.utcnow()
    uuids,           \* how many ids uuid.uuid4() has handed out
    last,            \* the latest call: op, args, outcome, result, ...
    issued,          \* history: <<triple, id>> of each successful create_federated_user
    activated,       \* history: user ids whose last_active_at a policy-on call has set
    sessions         \* the sessions of the latest call of each caller, in order of entry

vars == <<user, federated_user, nonlocal_user, days_inactive, now, uuids,
          last, issued, activated, sessions>>

tables == <<user, federated_user, nonlocal_user>>

----------------------------------------------------------------------------
(* Bounds of the model. *)

MaxTime == 1       \* the clock runs 0..MaxTime
MaxUuids == 3      \* create_federated_user calls explored (each draws a uuid4)
MaxFilters == 2    \* filters in a hints object
TicksPerDay == 2   \* clock ticks in one calendar day

(* Values of the model. *)

None == "None"     \* Python None / SQL NULL in a string-valued column
NoTime == -1       \* Python None / SQL NULL in a time-valued column

IdpIds == {"idp1", "idp2"}
ProtocolIds == {"saml2", "oidc"}
UniqueIds == {"x1", "x2"}
DisplayNames == {"Ann", "Bob"}
Names == {"alice", "bob"}
CallerIds == {101, 102}   \* ids a caller makes up; uuid4 ids are 1, 2, ...

Triple(f) == <<f.idp_id, f.protocol_id, f.unique_id>>

Triples == IdpIds \X ProtocolIds \X UniqueIds

----------------------------------------------------------------------------
(* Library and model-layer helpers. *)

\* uuid.uuid4().hex: a value no earlier call returned; the n-th call returns n.
uuid4(n) == n + 1

\* datetime.date(): the calendar day of a clock reading.
date(t) == t \div TicksPerDay

\* model.FederatedUser.from_dict: the row carries the dict's attributes.
FederatedUser_from_dict(d) ==
    [idp_id |-> d.idp_id, protocol_id |-> d.protocol_id,
     unique_id |-> d.unique_id, display_name |-> d.display_name,
     user_id |-> 0]

\* model.User.from_dict: attributes the dict lacks stay NULL.
User_from_dict(d) ==
    [id |-> d.id,
     enabled |-> IF "enabled" \in DOMAIN d THEN d.enabled ELSE None,
     created_at |-> NoTime,
     last_active_at |-> NoTime]

\* model.NonLocalUser.from_dict
NonLocalUser_from_dict(d) == [name |-> d.name, user_id |-> 0]

\* model.User.to_dict: the public attributes, password included.
to_dict(user_ref) ==
    [id |-> user_ref.id, enabled |-> user_ref.enabled, password |-> None]

\* identity_base.filter_user: strips the internal-only attributes.
filter_user(d) == [k \in DOMAIN d \ {"password"} |-> d[k]]

\* The store's constraints, checked when the session flushes its new rows at
\* commit: primary key user.id, unique (idp_id, protocol_id, unique_id) of
\* federated_user, unique name of nonlocal_user.
DBDuplicateEntry(user_ref, federated_refs, nonlocal_refs) ==
    \/ \E a \in user : a.id = user_ref.id
    \/ \E f \in federated_refs : \E a \in federated_user : Triple(a) = Triple(f)
    \/ \E n \in nonlocal_refs : \E a \in nonlocal_user : a.name = n.name

\* sql.handle_conflicts: a constraint violation becomes Conflict(conflict_type).
handle_conflicts(conflict_type, exc) ==
    IF exc = "DBDuplicateEntry" THEN "Conflict:" \o conflict_type ELSE exc

\* The thread that makes the calls which run one after the other.
Caller == "caller"

\* A call of `owner` starts: the sessions of its earlier call are history.
begin(owner) ==
    LET Other(s) == s.owner # owner
    IN  IF \A i \in 1..Len(sessions) : sessions[i].owner = owner THEN <<>>
        ELSE SelectSeq(sessions, Other)

\* Variant: the provider opens a write-scope session for a reader.
session_for_read_as_write(ss, owner) ==
    Append(ss, [owner |-> owner, scope |-> "write", open |-> TRUE,
                new |-> <<>>, exc |-> None])

\* `with sql.session_for_read()`: the provider hands out a read-scope session.
session_for_read(ss, owner) ==
    Append(ss, [owner |-> owner, scope |-> "read", open |-> TRUE,
                new |-> <<>>, exc |-> None])

\* `with sql.session_for_write()`: the provider hands out a write-scope session.
session_for_write(ss, owner) ==
    Append(ss, [owner |-> owner, scope |-> "write", open |-> TRUE,
                new |-> <<>>, exc |-> None])

\* Variant: the provider releases a session only when the block ends normally.
exit_on_success(ss, owner, exc) ==
    [i \in 1..Len(ss) |->
        IF /\ exc = "ok"
           /\ ss[i].owner = owner
           /\ ss[i].open
           /\ \A j \in (i + 1)..Len(ss) : ~(ss[j].owner = owner /\ ss[j].open)
        THEN [ss[i] EXCEPT !.open = FALSE, !.exc = exc]
        ELSE ss[i]]

\* The end of a `with` block, reached by return or by the exception exc: the
\* innermost open session of `owner` is released.
exit(ss, owner, exc) ==
    [i \in 1..Len(ss) |->
        IF /\ ss[i].owner = owner
           /\ ss[i].open
           /\ \A j \in (i + 1)..Len(ss) : ~(ss[j].owner = owner /\ ss[j].open)
        THEN [ss[i] EXCEPT !.open = FALSE, !.exc = exc]
        ELSE ss[i]]

\* session.add(...): the rows wait in the owner's open session for its commit.
add(ss, owner, rows) ==
    LET mine == {i \in 1..Len(ss) : ss[i].owner = owner /\ ss[i].open}
        inner == CHOOSE i \in mine : \A j \in mine : j <= i
    IN  [ss EXCEPT ![inner].new = rows]

\* The record of a call. `again` marks an update_federated_user_display_name
\* that directly follows one with the same arguments.
Call(op, args, outcome, result, rows, uuid) ==
    [op |-> op, args |-> args, outcome |-> outcome, result |-> result,
     rows |-> rows, uuid |-> uuid,
     again |-> (/\ op = "update_federated_user_display_name"
                /\ last.op = op
                /\ last.args = args)]

----------------------------------------------------------------------------
Init ==
    /\ user = {}
    /\ federated_user = {}
    /\ nonlocal_user = {}
    /\ days_inactive = 0
    /\ now = 0
    /\ uuids = 0
    /\ last = [op |-> "init", args |-> <<>>, outcome |-> "ok", result |-> {},
               rows |-> 0, uuid |-> 0, again |-> FALSE]
    /\ issued = {}
    /\ activated = {}
    /\ sessions = <<>>

----------------------------------------------------------------------------
(* Inputs. *)

FederatedDicts ==
    [idp_id : IdpIds, protocol_id : ProtocolIds, unique_id : UniqueIds,
     display_name : DisplayNames \cup {None}]

\* A dict with key "id" and any of the keys "name", "enabled", "password".
UserDict(id, name, enabled, password) ==
    [k \in {"id"} \cup (IF name = None THEN {} ELSE {"name"})
                  \cup (IF enabled = None THEN {} ELSE {"enabled"})
                  \cup (IF password = None THEN {} ELSE {"password"}) |->
        CASE k = "id" -> id
          [] k = "name" -> name
          [] k = "enabled" -> enabled
          [] k = "password" -> password]

\* The ids a caller can name: the ones it makes up and the ones of stored users.
KnownIds == CallerIds \cup {u.id : u \in user}

UserDicts ==
    {UserDict(id, name, enabled, password) :
        id \in KnownIds, name \in Names \cup {None},
        enabled \in {"True", "False", None}, password \in {"secret", None}}

----------------------------------------------------------------------------
(* The driver's methods. *)

\* create_federated_user against a store whose federated_user table has no
\* unique constraint on its key: the commit checks the primary key of user only.
create_federated_user_unconstrained(federated_dict) ==
    LET t == now
        usr == [id |-> uuid4(uuids), enabled |-> "True"]
        federated_ref == [FederatedUser_from_dict(federated_dict)
                            EXCEPT !.user_id = usr.id]
        user_ref == [User_from_dict(usr) EXCEPT !.created_at = t]
        dup == DBDuplicateEntry(user_ref, {}, {})
    IN  /\ uuids < MaxUuids
        /\ uuids' = uuids + 1
        /\ IF dup
           THEN /\ UNCHANGED <<tables, issued>>
                /\ last' = Call("create_federated_user", federated_dict,
                             handle_conflicts("federated_user", "DBDuplicateEntry"),
                             {}, 0, usr.id)
           ELSE /\ user' = user \cup {user_ref}
                /\ federated_user' = federated_user \cup {federated_ref}
                /\ UNCHANGED nonlocal_user
                /\ issued' = issued \cup {<<Triple(federated_dict), usr.id>>}
                /\ last' = Call("create_federated_user", federated_dict, "ok",
                             {filter_user(to_dict(user_ref))}, 0, usr.id)
        /\ sessions' = exit(session_for_write(begin(Caller), Caller), Caller,
                         IF dup THEN "DBDuplicateEntry" ELSE "ok")
        /\ UNCHANGED <<days_inactive, now, activated>>

\* Variant: the method lacks its @sql.handle_conflicts decorator.
create_federated_user_undecorated(federated_dict) ==
      LET t == now
          usr == [id |-> uuid4(uuids), enabled |-> "True"]
          federated_ref == [FederatedUser_from_dict(federated_dict)
                              EXCEPT !.user_id = usr.id]
          user_ref == [User_from_dict(usr) EXCEPT !.created_at = t]
          dup == DBDuplicateEntry(user_ref, {federated_ref}, {})
      IN  /\ uuids < MaxUuids
          /\ uuids' = uuids + 1
          /\ IF dup
             THEN /\ UNCHANGED <<tables, issued>>
                  /\ last' = Call("create_federated_user", federated_dict,
                               "DBDuplicateEntry", {}, 0, usr.id)
             ELSE /\ user' = user \cup {user_ref}
                  /\ federated_user' = federated_user \cup {federated_ref}
                  /\ UNCHANGED nonlocal_user
                  /\ issued' = issued \cup {<<Triple(federated_dict), usr.id>>}
                  /\ last' = Call("create_federated_user", federated_dict, "ok",
                               {filter_user(to_dict(user_ref))}, 0, usr.id)
          /\ sessions' = exit(session_for_write(begin(Caller), Caller), Caller,
                           IF dup THEN "DBDuplicateEntry" ELSE "ok")
          /\ UNCHANGED <<days_inactive, now, activated>>

\* Variant: the session adds the rows although the key is taken, as if the
\* commit did not check the federated key.
create_federated_user_unchecked(federated_dict) ==
      LET t == now
          usr == [id |-> uuid4(uuids), enabled |-> "True"]
          federated_ref == [FederatedUser_from_dict(federated_dict)
                              EXCEPT !.user_id = usr.id]
          user_ref == [User_from_dict(usr) EXCEPT !.created_at = t]
      IN  /\ uuids < MaxUuids
          /\ uuids' = uuids + 1
          /\ user' = user \cup {user_ref}
          /\ federated_user' = federated_user \cup {federated_ref}
          /\ UNCHANGED nonlocal_user
          /\ issued' = issued \cup {<<Triple(federated_dict), usr.id>>}
          /\ last' = Call("create_federated_user", federated_dict, "ok",
                          {filter_user(to_dict(user_ref))}, 0, usr.id)
          /\ sessions' = exit(session_for_write(begin(Caller), Caller), Caller,
                           "ok")
          /\ UNCHANGED <<days_inactive, now, activated>>

\* Variant: the assignment of created_at is missing.
create_federated_user_no_created_at(federated_dict) ==
      LET usr == [id |-> uuid4(uuids), enabled |-> "True"]
          federated_ref == [FederatedUser_from_dict(federated_dict)
                              EXCEPT !.user_id = usr.id]
          user_ref == User_from_dict(usr)
          dup == DBDuplicateEntry(user_ref, {federated_ref}, {})
      IN  /\ uuids < MaxUuids
          /\ uuids' = uuids + 1
          /\ IF dup
             THEN /\ UNCHANGED <<tables, issued>>
                  /\ last' = Call("create_federated_user", federated_dict,
                               handle_conflicts("federated_user", "DBDuplicateEntry"),
                               {}, 0, usr.id)
             ELSE /\ user' = user \cup {user_ref}
                  /\ federated_user' = federated_user \cup {federated_ref}
                  /\ UNCHANGED nonlocal_user
                  /\ issued' = issued \cup {<<Triple(federated_dict), usr.id>>}
                  /\ last' = Call("create_federated_user", federated_dict, "ok",
                               {filter_user(to_dict(user_ref))}, 0, usr.id)
          /\ sessions' = exit(session_for_write(begin(Caller), Caller), Caller,
                           IF dup THEN "DBDuplicateEntry" ELSE "ok")
          /\ UNCHANGED <<days_inactive, now, activated>>

\* Variant: the rows are written one by one and a conflict does not roll the
\* User row back.
create_federated_user_partial(federated_dict) ==
    LET t == now
        usr == [id |-> uuid4(uuids), enabled |-> "True"]
        federated_ref == [FederatedUser_from_dict(federated_dict) EXCEPT !.user_id = usr.id]
        user_ref == [User_from_dict(usr) EXCEPT !.created_at = t]
        dup == DBDuplicateEntry(user_ref, {federated_ref}, {})
    IN  /\ uuids < MaxUuids
        /\ uuids' = uuids + 1
        /\ IF dup
           THEN /\ user' = user \cup {user_ref}
                /\ UNCHANGED <<federated_user, nonlocal_user, issued>>
                /\ last' = Call("create_federated_user", federated_dict,
                             handle_conflicts("federated_user", "DBDuplicateEntry"),
                             {}, 0, usr.id)
           ELSE /\ user' = user \cup {user_ref}
                /\ federated_user' = federated_user \cup {federated_ref}
                /\ UNCHANGED nonlocal_user
                /\ issued' = issued \cup {<<Triple(federated_dict), usr.id>>}
                /\ last' = Call("create_federated_user", federated_dict, "ok",
                             {filter_user(to_dict(user_ref))}, 0, usr.id)
        /\ sessions' = exit(session_for_write(begin(Caller), Caller), Caller,
                         IF dup THEN "DBDuplicateEntry" ELSE "ok")
        /\ UNCHANGED <<days_inactive, now, activated>>

create_federated_user(federated_dict) ==
      LET t == now
          usr == [id |-> uuid4(uuids), enabled |-> "True"]
          federated_ref == [FederatedUser_from_dict(federated_dict)
                              EXCEPT !.user_id = usr.id]
          user_ref == [User_from_dict(usr) EXCEPT !.created_at = t]
          dup == DBDuplicateEntry(user_ref, {federated_ref}, {})
      IN  /\ uuids < MaxUuids
          /\ uuids' = uuids + 1
          /\ IF dup
             THEN /\ UNCHANGED <<tables, issued>>
                  /\ last' = Call("create_federated_user", federated_dict,
                               handle_conflicts("federated_user", "DBDuplicateEntry"),
                               {}, 0, usr.id)
             ELSE /\ user' = user \cup {user_ref}
                  /\ federated_user' = federated_user \cup {federated_ref}
                  /\ UNCHANGED nonlocal_user
                  /\ issued' = issued \cup {<<Triple(federated_dict), usr.id>>}
                  /\ last' = Call("create_federated_user", federated_dict, "ok",
                               {filter_user(to_dict(user_ref))}, 0, usr.id)
          /\ sessions' = exit(session_for_write(begin(Caller), Caller), Caller,
                           IF dup THEN "DBDuplicateEntry" ELSE "ok")
          /\ UNCHANGED <<days_inactive, now, activated>>

\* Variant: the decorator names conflict_type='federated_user'.
create_nonlocal_user_wrong_type(user_dict) ==
    IF "name" \notin DOMAIN user_dict
    THEN /\ last' = Call("create_nonlocal_user", user_dict, "KeyError", {}, 0, 0)
         /\ sessions' = begin(Caller)
         /\ UNCHANGED <<tables, days_inactive, now, uuids, issued, activated>>
    ELSE
        LET t == now
            new_user_dict == [k \in DOMAIN user_dict \ {"name", "password"} |->
                                user_dict[k]]
            new_nonlocal_user_dict == [name |-> user_dict.name]
            new_user_ref == [User_from_dict(new_user_dict) EXCEPT !.created_at = t]
            new_nonlocal_user_ref ==
                [NonLocalUser_from_dict(new_nonlocal_user_dict)
                    EXCEPT !.user_id = new_user_ref.id]
            dup == DBDuplicateEntry(new_user_ref, {}, {new_nonlocal_user_ref})
        IN  /\ IF dup
               THEN /\ UNCHANGED tables
                    /\ last' = Call("create_nonlocal_user", user_dict,
                                 handle_conflicts("federated_user", "DBDuplicateEntry"),
                                 {}, 0, 0)
               ELSE /\ user' = user \cup {new_user_ref}
                    /\ nonlocal_user' = nonlocal_user \cup {new_nonlocal_user_ref}
                    /\ UNCHANGED federated_user
                    /\ last' = Call("create_nonlocal_user", user_dict, "ok",
                                 {filter_user(to_dict(new_user_ref))}, 0, 0)
            /\ sessions' = exit(session_for_write(begin(Caller), Caller), Caller,
                             IF dup THEN "DBDuplicateEntry" ELSE "ok")
            /\ UNCHANGED <<days_inactive, now, uuids, issued, activated>>

\* Variant: session.merge in place of session.add: a row with the same primary
\* key is overwritten.
create_nonlocal_user_merge(user_dict) ==
    IF "name" \notin DOMAIN user_dict
    THEN /\ last' = Call("create_nonlocal_user", user_dict, "KeyError", {}, 0, 0)
         /\ sessions' = begin(Caller)
         /\ UNCHANGED <<tables, days_inactive, now, uuids, issued, activated>>
    ELSE
        LET t == now
            new_user_dict == [k \in DOMAIN user_dict \ {"name", "password"} |->
                                user_dict[k]]
            new_nonlocal_user_dict == [name |-> user_dict.name]
            new_user_ref == [User_from_dict(new_user_dict) EXCEPT !.created_at = t]
            new_nonlocal_user_ref ==
                [NonLocalUser_from_dict(new_nonlocal_user_dict)
                    EXCEPT !.user_id = new_user_ref.id]
            dup == \E a \in nonlocal_user : a.name = new_nonlocal_user_ref.name
        IN  /\ IF dup
               THEN /\ UNCHANGED tables
                    /\ last' = Call("create_nonlocal_user", user_dict,
                                 handle_conflicts("nonlocal_user", "DBDuplicateEntry"),
                                 {}, 0, 0)
               ELSE /\ user' = {u \in user : u.id # new_user_ref.id}
                                  \cup {new_user_ref}
                    /\ nonlocal_user' = nonlocal_user \cup {new_nonlocal_user_ref}
                    /\ UNCHANGED federated_user
                    /\ last' = Call("create_nonlocal_user", user_dict, "ok",
                                 {filter_user(to_dict(new_user_ref))}, 0, 0)
            /\ sessions' = exit(session_for_write(begin(Caller), Caller), Caller,
                             IF dup THEN "DBDuplicateEntry" ELSE "ok")
            /\ UNCHANGED <<days_inactive, now, uuids, issued, activated>>

create_nonlocal_user(user_dict) ==
    IF "name" \notin DOMAIN user_dict
    THEN /\ last' = Call("create_nonlocal_user", user_dict, "KeyError", {}, 0, 0)
         /\ sessions' = begin(Caller)
         /\ UNCHANGED <<tables, days_inactive, now, uuids, issued, activated>>
    ELSE
        LET t == now
            new_user_dict == [k \in DOMAIN user_dict \ {"name", "password"} |->
                                user_dict[k]]
            new_nonlocal_user_dict == [name |-> user_dict.name]
            new_user_ref == [User_from_dict(new_user_dict) EXCEPT !.created_at = t]
            new_nonlocal_user_ref ==
                [NonLocalUser_from_dict(new_nonlocal_user_dict)
                    EXCEPT !.user_id = new_user_ref.id]
            dup == DBDuplicateEntry(new_user_ref, {}, {new_nonlocal_user_ref})
        IN  /\ IF dup
               THEN /\ UNCHANGED tables
                    /\ last' = Call("create_nonlocal_user", user_dict,
                                 handle_conflicts("nonlocal_user", "DBDuplicateEntry"),
                                 {}, 0, 0)
               ELSE /\ user' = user \cup {new_user_ref}
                    /\ nonlocal_user' = nonlocal_user \cup {new_nonlocal_user_ref}
                    /\ UNCHANGED federated_user
                    /\ last' = Call("create_nonlocal_user", user_dict, "ok",
                                 {filter_user(to_dict(new_user_ref))}, 0, 0)
            /\ sessions' = exit(session_for_write(begin(Caller), Caller), Caller,
                             IF dup THEN "DBDuplicateEntry" ELSE "ok")
            /\ UNCHANGED <<days_inactive, now, uuids, issued, activated>>

\* Variant: the filter on idp_id is missing from the query.
_get_federated_user_any_idp(idp_id, protocol_id, unique_id) ==
    LET rows == {u \in user : \E f \in federated_user :
                    /\ f.user_id = u.id
                    /\ f.protocol_id = protocol_id
                    /\ f.unique_id = unique_id}
    IN  IF rows = {} THEN [exc |-> "UserNotFound", user_ref |-> {}]
        ELSE IF Cardinality(rows) > 1
             THEN [exc |-> "MultipleResultsFound", user_ref |-> {}]
             ELSE [exc |-> "ok", user_ref |-> rows]

\* Variant: the filter on protocol_id is missing from the query.
_get_federated_user_any_protocol(idp_id, protocol_id, unique_id) ==
    LET rows == {u \in user : \E f \in federated_user :
                    /\ f.user_id = u.id
                    /\ f.idp_id = idp_id
                    /\ f.unique_id = unique_id}
    IN  IF rows = {} THEN [exc |-> "UserNotFound", user_ref |-> {}]
        ELSE IF Cardinality(rows) > 1
             THEN [exc |-> "MultipleResultsFound", user_ref |-> {}]
             ELSE [exc |-> "ok", user_ref |-> rows]

\* Variant: query.first() in place of query.one().
_get_federated_user_first(idp_id, protocol_id, unique_id) ==
    LET rows == {u \in user : \E f \in federated_user :
                    /\ f.user_id = u.id
                    /\ f.idp_id = idp_id
                    /\ f.protocol_id = protocol_id
                    /\ f.unique_id = unique_id}
    IN  IF rows = {} THEN [exc |-> "UserNotFound", user_ref |-> {}]
        ELSE [exc |-> "ok",
              user_ref |-> {CHOOSE u \in rows : \A v \in rows : u.id <= v.id}]

\* query.one() over User joined with FederatedUser on the three key columns.
_get_federated_user(idp_id, protocol_id, unique_id) ==
    LET rows == {u \in user : \E f \in federated_user :
                    /\ f.user_id = u.id
                    /\ f.idp_id = idp_id
                    /\ f.protocol_id = protocol_id
                    /\ f.unique_id = unique_id}
    IN  IF rows = {} THEN [exc |-> "UserNotFound", user_ref |-> {}]
        ELSE IF Cardinality(rows) > 1
             THEN [exc |-> "MultipleResultsFound", user_ref |-> {}]
             ELSE [exc |-> "ok", user_ref |-> rows]

get_federated_user(idp_id, protocol_id, unique_id) ==
    LET got == _get_federated_user(idp_id, protocol_id, unique_id)
    IN  /\ last' = Call("get_federated_user", <<idp_id, protocol_id, unique_id>>,
                        got.exc,
                        {filter_user(to_dict(user_ref)) : user_ref \in got.user_ref},
                        0, 0)
        /\ sessions' = exit(exit(session_for_read(session_for_read(begin(Caller), Caller),
                                               Caller),
                              Caller, got.exc),
                         Caller, got.exc)
        /\ UNCHANGED <<tables, days_inactive, now, uuids, issued, activated>>

\* Variant: the test of the configuration option is missing.
set_last_active_at_unconditional(user_id) ==
    LET t == now
        found == {u \in user : u.id = user_id}
    IN  /\ IF found = {}
           THEN /\ UNCHANGED <<tables, activated>>
                /\ last' = Call("set_last_active_at", user_id,
                                "AttributeError", {}, 0, 0)
           ELSE /\ user' = {IF u.id = user_id
                            THEN [u EXCEPT !.last_active_at = date(t)]
                            ELSE u : u \in user}
                /\ UNCHANGED <<federated_user, nonlocal_user>>
                /\ activated' = IF days_inactive # 0
                                THEN activated \cup {user_id} ELSE activated
                /\ last' = Call("set_last_active_at", user_id, "ok", {}, 0, 0)
        /\ sessions' = exit(session_for_write(begin(Caller), Caller), Caller,
                         IF found = {} THEN "AttributeError" ELSE "ok")
        /\ UNCHANGED <<days_inactive, now, uuids, issued>>

set_last_active_at(user_id) ==
    IF days_inactive # 0
    THEN   LET t == now
               found == {u \in user : u.id = user_id}
           IN  /\ IF found = {}
                  THEN /\ UNCHANGED <<tables, activated>>
                       /\ last' = Call("set_last_active_at", user_id,
                                       "AttributeError", {}, 0, 0)
                  ELSE /\ user' = {IF u.id = user_id
                                   THEN [u EXCEPT !.last_active_at = date(t)]
                                   ELSE u : u \in user}
                       /\ UNCHANGED <<federated_user, nonlocal_user>>
                       /\ activated' = activated \cup {user_id}
                       /\ last' = Call("set_last_active_at", user_id, "ok", {}, 0, 0)
               /\ sessions' = exit(session_for_write(begin(Caller), Caller), Caller,
                                IF found = {} THEN "AttributeError" ELSE "ok")
               /\ UNCHANGED <<days_inactive, now, uuids, issued>>
    ELSE /\ last' = Call("set_last_active_at", user_id, "ok", {}, 0, 0)
         /\ sessions' = begin(Caller)
         /\ UNCHANGED <<tables, days_inactive, now, uuids, issued, activated>>

\* SQL `column != value`: IS NOT NULL for a None value, else unknown on NULL.
ne(column, value) ==
    IF value = None THEN column # None ELSE column # None /\ column # value

\* Variant: the query lacks the filter display_name != :display_name.
update_federated_user_display_name_unfiltered(idp_id, protocol_id, unique_id, display_name) ==
    LET matched == {f \in federated_user :
                      /\ f.idp_id = idp_id
                      /\ f.protocol_id = protocol_id
                      /\ f.unique_id = unique_id}
    IN  /\ federated_user' = {IF f \in matched
                              THEN [f EXCEPT !.display_name = display_name]
                              ELSE f : f \in federated_user}
        /\ last' = Call("update_federated_user_display_name",
                        <<idp_id, protocol_id, unique_id, display_name>>,
                        "ok", {}, Cardinality(matched), 0)
        /\ sessions' = exit(session_for_write(begin(Caller), Caller), Caller,
                         "ok")
        /\ UNCHANGED <<user, nonlocal_user, days_inactive, now, uuids, issued,
                       activated>>

update_federated_user_display_name(idp_id, protocol_id, unique_id, display_name) ==
    LET matched == {f \in federated_user :
                      /\ f.idp_id = idp_id
                      /\ f.protocol_id = protocol_id
                      /\ f.unique_id = unique_id
                      /\ ne(f.display_name, display_name)}
    IN  /\ federated_user' = {IF f \in matched
                              THEN [f EXCEPT !.display_name = display_name]
                              ELSE f : f \in federated_user}
        /\ last' = Call("update_federated_user_display_name",
                        <<idp_id, protocol_id, unique_id, display_name>>,
                        "ok", {}, Cardinality(matched), 0)
        /\ sessions' = exit(session_for_write(begin(Caller), Caller), Caller,
                         "ok")
        /\ UNCHANGED <<user, nonlocal_user, days_inactive, now, uuids, issued,
                       activated>>

\* sqlalchemy.and_(*statements) on a FederatedUser row; no statement holds of all.
and_(statements, f) ==
    \A i \in 1..Len(statements) : f[statements[i].column] = statements[i].value

\* Variant: copy-paste slip, the protocol_id branch compares column idp_id.
_update_query_with_federated_statements_slip(hints, query) ==
    LET Statement(filter_) ==
            IF filter_.name = "protocol_id"
            THEN [column |-> "idp_id", value |-> filter_.value]
            ELSE [column |-> filter_.name, value |-> filter_.value]
        Federated(filter_) == filter_.name \in {"idp_id", "protocol_id", "unique_id"}
        federated == SelectSeq(hints.filters, Federated)
        statements == [i \in 1..Len(federated) |-> Statement(federated[i])]
        Generic(filter_) == ~Federated(filter_)
    IN  [hints |-> [hints EXCEPT !.filters = SelectSeq(hints.filters, Generic)],
         statements |-> statements,
         query |-> {row \in query : and_(statements, row[2])}]

\* Variant: every filter leaves hints.filters, the federated ones and the rest.
_update_query_with_federated_statements_greedy(hints, query) ==
    LET Statement(filter_) == [column |-> filter_.name, value |-> filter_.value]
        Federated(filter_) == filter_.name \in {"idp_id", "protocol_id", "unique_id"}
        federated == SelectSeq(hints.filters, Federated)
        statements == [i \in 1..Len(federated) |-> Statement(federated[i])]
    IN  [hints |-> [hints EXCEPT !.filters = <<>>],
         statements |-> statements,
         query |-> {row \in query : and_(statements, row[2])}]

\* One equality statement per filter on idp_id, protocol_id or unique_id, in the
\* order of hints.filters; those filters leave hints.filters; the query keeps
\* the rows that satisfy all statements.
_update_query_with_federated_statements(hints, query) ==
    LET Statement(filter_) == [column |-> filter_.name, value |-> filter_.value]
        Federated(filter_) == filter_.name \in {"idp_id", "protocol_id", "unique_id"}
        federated == SelectSeq(hints.filters, Federated)
        statements == [i \in 1..Len(federated) |-> Statement(federated[i])]
        Generic(filter_) == ~Federated(filter_)
    IN  [hints |-> [hints EXCEPT !.filters = SelectSeq(hints.filters, Generic)],
         statements |-> statements,
         query |-> {row \in query : and_(statements, row[2])}]

\* sql.filter_limit_query(model.User, query, hints): the filters left in hints,
\* each an equality on a column of User.
filter_limit_query(query, hints) ==
    {row \in query :
        \A i \in 1..Len(hints.filters) :
            row[1][hints.filters[i].name] = hints.filters[i].value}

\* The query's rows are pairs <<User, FederatedUser>> joined on user_id; the
\* outer join with LocalUser adds no row. The mapper returns each User once.
\* The record of the call also keeps what sql.filter_limit_query was handed:
\* the filters left in hints, and the query (its statements, and its rows by
\* the user_id of their FederatedUser).
get_federated_users(hints) ==
    \E updated \in {_update_query_with_federated_statements(hints,
                        {row \in user \X federated_user : row[1].id = row[2].user_id})} :
        LET user_refs == {row[1] : row \in filter_limit_query(updated.query, updated.hints)}
        IN  /\ last' = Call("get_federated_users", hints.filters, "ok",
                            {filter_user(to_dict(x)) : x \in user_refs}, 0, 0)
                       @@ [hints |-> updated.hints.filters,
                           statements |-> updated.statements,
                           query |-> {row[2].user_id : row \in updated.query}]
            /\ sessions' = exit(session_for_read(begin(Caller), Caller), Caller,
                             "ok")
            /\ UNCHANGED <<tables, days_inactive, now, uuids, issued, activated>>

\* Variant: _get_user lacks `if not user_ref: raise UserNotFound`.
get_user_unguarded(user_id) ==
    LET found == {u \in user : u.id = user_id}
    IN  /\ last' = Call("get_user", user_id, "ok",
                        {filter_user(to_dict(user_ref)) : user_ref \in found}, 0, 0)
        /\ sessions' = exit(session_for_read(begin(Caller), Caller), Caller,
                         "ok")
        /\ UNCHANGED <<tables, days_inactive, now, uuids, issued, activated>>

\* session.query(User).get(user_id); UserNotFound when there is no such row.
get_user(user_id) ==
    LET found == {u \in user : u.id = user_id}
    IN  /\ last' = Call("get_user", user_id,
                        IF found = {} THEN "UserNotFound" ELSE "ok",
                        {filter_user(to_dict(user_ref)) : user_ref \in found}, 0, 0)
        /\ sessions' = exit(session_for_read(begin(Caller), Caller), Caller,
                         IF found = {} THEN "UserNotFound" ELSE "ok")
        /\ UNCHANGED <<tables, days_inactive, now, uuids, issued, activated>>

\* The operator sets or clears disable_user_account_days_inactive.
configure(days) ==
    /\ days # days_inactive
    /\ days_inactive' = days
    /\ last' = Call("configure", days, "ok", {}, 0, 0)
    /\ sessions' = begin(Caller)
    /\ UNCHANGED <<tables, now, uuids, issued, activated>>

\* Time passes between calls.
tick ==
    /\ now < MaxTime
    /\ now' = now + 1
    /\ last' = Call("tick", <<>>, "ok", {}, 0, 0)
    /\ sessions' = begin(Caller)
    /\ UNCHANGED <<tables, days_inactive, uuids, issued, activated>>

(* create_federated_user as the steps of a worker thread that runs beside      *)
(* other workers: the call up to session.add, and the rest, in which the       *)
(* session commits.                                                            *)

Workers == {"w1", "w2", "w3"}

\* Lines 33-42: the ids and rows are made and added to the worker's session.
create_federated_user_add(w, federated_dict) ==
    LET t == now
        usr == [id |-> uuid4(uuids), enabled |-> "True"]
        federated_ref == [FederatedUser_from_dict(federated_dict)
                            EXCEPT !.user_id = usr.id]
        user_ref == [User_from_dict(usr) EXCEPT !.created_at = t]
    IN  /\ uuids < MaxUuids
        /\ \A i \in 1..Len(sessions) : sessions[i].owner # w
        /\ uuids' = uuids + 1
        /\ sessions' = add(session_for_write(begin(w), w), w,
                           <<user_ref, federated_ref>>)
        /\ UNCHANGED <<tables, days_inactive, now, last, issued, activated>>

\* Variant: the commit writes the rows without a check of the constraints.
create_federated_user_commit_unchecked(w) ==
    \E i \in 1..Len(sessions) :
        /\ sessions[i].owner = w
        /\ sessions[i].open
        /\ LET user_ref == sessions[i].new[1]
               federated_ref == sessions[i].new[2]
               federated_dict == [k \in DOMAIN federated_ref \ {"user_id"} |->
                                    federated_ref[k]]
           IN  /\ user' = user \cup {user_ref}
               /\ federated_user' = federated_user \cup {federated_ref}
               /\ UNCHANGED nonlocal_user
               /\ issued' = issued \cup {<<Triple(federated_dict), user_ref.id>>}
               /\ last' = Call("create_federated_user", federated_dict, "ok",
                               {filter_user(to_dict(user_ref))}, 0, user_ref.id)
               /\ sessions' = exit(sessions, w, "ok")
        /\ UNCHANGED <<days_inactive, now, uuids, activated>>

\* Line 43 and the end of the `with` block: the session commits; the store
\* checks its constraints against the rows committed by then.
create_federated_user_commit(w) ==
    \E i \in 1..Len(sessions) :
        /\ sessions[i].owner = w
        /\ sessions[i].open
        /\ LET user_ref == sessions[i].new[1]
               federated_ref == sessions[i].new[2]
               federated_dict == [k \in DOMAIN federated_ref \ {"user_id"} |->
                                    federated_ref[k]]
               dup == DBDuplicateEntry(user_ref, {federated_ref}, {})
           IN  /\ IF dup
                  THEN /\ UNCHANGED <<tables, issued>>
                       /\ last' = Call("create_federated_user", federated_dict,
                                    handle_conflicts("federated_user", "DBDuplicateEntry"),
                                    {}, 0, user_ref.id)
                  ELSE /\ user' = user \cup {user_ref}
                       /\ federated_user' = federated_user \cup {federated_ref}
                       /\ UNCHANGED nonlocal_user
                       /\ issued' = issued \cup {<<Triple(federated_dict), user_ref.id>>}
                       /\ last' = Call("create_federated_user", federated_dict, "ok",
                                    {filter_user(to_dict(user_ref))}, 0, user_ref.id)
               /\ sessions' = exit(sessions, w, IF dup THEN "DBDuplicateEntry" ELSE "ok")
        /\ UNCHANGED <<days_inactive, now, uuids, activated>>

(* The federated key: two identity providers' users, created, looked up and *)
(* renamed under every key, next to a non-local user and activity tracking, *)
(* at one clock reading.                                                    *)

KeyFederatedDicts ==
    {d \in FederatedDicts :
        /\ d.protocol_id = "saml2"
        /\ d.unique_id = "x1"
        /\ d.display_name \in {"Ann", None}}

KeyUserDicts == {UserDict(id, "alice", "True", None) : id \in CallerIds}

UpdatedTriples == {tr \in Triples : tr[2] = "saml2"}

Next ==
    \/ \E federated_dict \in KeyFederatedDicts : create_federated_user(federated_dict)
    \/ \E user_dict \in KeyUserDicts : create_nonlocal_user(user_dict)
    \/ \E tr \in Triples : get_federated_user(tr[1], tr[2], tr[3])
    \/ \E user_id \in KnownIds : set_last_active_at(user_id)
    \/ \E tr \in UpdatedTriples : \E display_name \in DisplayNames \cup {None} :
          update_federated_user_display_name(tr[1], tr[2], tr[3], display_name)
    \/ \E days \in {0, 1} : configure(days)

Spec == Init /\ [][Next]_vars

----------------------------------------------------------------------------
(* Listing: federated users of three keys beside a non-local user, listed   *)
(* under every hints object of up to MaxFilters filters.                    *)

\* Each federated filter keeps two of the three keys stored below.
Filters ==
    {[name |-> "idp_id", value |-> "idp1"],
     [name |-> "idp_id", value |-> "idp2"],
     [name |-> "protocol_id", value |-> "saml2"],
     [name |-> "unique_id", value |-> "x2"],
     [name |-> "enabled", value |-> "True"]}

Hints ==
    {[filters |-> fs] : fs \in UNION {[1..n -> Filters] : n \in 0..MaxFilters}}

ListedFederatedDicts ==
    {d \in FederatedDicts :
        /\ d.display_name = None
        /\ Triple(d) \in {<<"idp1", "saml2", "x1">>, <<"idp1", "oidc", "x2">>,
                          <<"idp2", "saml2", "x2">>}}

ListedUserDicts == {UserDict(101, "alice", "False", None)}

NextList ==
    \/ \E federated_dict \in ListedFederatedDicts : create_federated_user(federated_dict)
    \/ \E user_dict \in ListedUserDicts : create_nonlocal_user(user_dict)
    \/ \E hints \in Hints : get_federated_users(hints)

SpecList == Init /\ [][NextList]_vars

----------------------------------------------------------------------------
(* Creation: users of both kinds created from every dict a caller can pass, *)
(* at every clock reading, and read back.                                   *)

CreatedFederatedDicts ==
    {d \in FederatedDicts : Triple(d) = <<"idp1", "saml2", "x1">> /\ d.display_name = None}

NextCreate ==
    \/ \E federated_dict \in CreatedFederatedDicts :
          create_federated_user(federated_dict)
    \/ \E user_dict \in UserDicts : create_nonlocal_user(user_dict)
    \/ \E user_id \in KnownIds : get_user(user_id)
    \/ tick

SpecCreate == Init /\ [][NextCreate]_vars

----------------------------------------------------------------------------
(* Activity: set_last_active_at for stored and unknown users while the      *)
(* operator sets and clears the option and the clock moves.                 *)

NextActive ==
    \/ \E federated_dict \in CreatedFederatedDicts :
          create_federated_user(federated_dict)
    \/ \E user_dict \in KeyUserDicts : create_nonlocal_user(user_dict)
    \/ \E user_id \in KnownIds : set_last_active_at(user_id)
    \/ \E days \in {0, 1} : configure(days)
    \/ tick

SpecActive == Init /\ [][NextActive]_vars

----------------------------------------------------------------------------
(* Concurrency: every worker calls create_federated_user once, under one of   *)
(* two keys, and the steps of the calls interleave in every order.            *)

ConcurrentFederatedDicts ==
    {d \in FederatedDicts :
        /\ d.idp_id = "idp1"
        /\ d.protocol_id = "saml2"
        /\ d.display_name \in {"Ann", None}}

NextConcurrent ==
    \/ \E w \in Workers : \E federated_dict \in ConcurrentFederatedDicts :
          create_federated_user_add(w, federated_dict)
    \/ \E w \in Workers : create_federated_user_commit(w)

SpecConcurrent == Init /\ [][NextConcurrent]_vars

----------------------------------------------------------------------------
(* Sessions: every method of the driver, on inputs that take it through each *)
(* of its ways out.                                                          *)

SessionUserDicts ==
    {UserDict(101, "alice", "True", None), UserDict(102, None, "True", None)}

SessionTriples == {<<"idp1", "saml2", "x1">>, <<"idp2", "saml2", "x1">>}

SessionHints == {hints \in Hints : Len(hints.filters) <= 1}

NextSessions ==
    \/ \E federated_dict \in CreatedFederatedDicts :
          create_federated_user(federated_dict)
    \/ \E user_dict \in SessionUserDicts : create_nonlocal_user(user_dict)
    \/ \E tr \in SessionTriples : get_federated_user(tr[1], tr[2], tr[3])
    \/ \E hints \in SessionHints : get_federated_users(hints)
    \/ \E user_id \in KnownIds : get_user(user_id)
    \/ \E user_id \in KnownIds : set_last_active_at(user_id)
    \/ \E display_name \in {"Ann", None} :
          update_federated_user_display_name("idp1", "saml2", "x1", display_name)
    \/ \E days \in {0, 1} : configure(days)

SpecSessions == Init /\ [][NextSessions]_vars

----------------------------------------------------------------------------
(* Integrity: lookups in a store whose federated_user table does not enforce *)
(* the uniqueness of the key, so that calls of create_federated_user leave   *)
(* several rows under one triple.                                            *)

NextIntegrity ==
    \/ \E federated_dict \in ConcurrentFederatedDicts :
          create_federated_user_unconstrained(federated_dict)
    \/ \E tr \in SessionTriples \cup {<<"idp1", "saml2", "x2">>} :
          get_federated_user(tr[1], tr[2], tr[3])

SpecIntegrity == Init /\ [][NextIntegrity]_vars

----------------------------------------------------------------------------
(* Claims. *)

KeyTaken(triple) == \E f \in federated_user : Triple(f) = triple

\* C1: create_federated_user with a triple no FederatedUser carries succeeds,
\* and every later get_federated_user with that triple returns the user whose
\* id the create returned, with enabled = true.
C1_create_then_get ==
    /\ [][(/\ last'.op = "create_federated_user"
           /\ ~KeyTaken(Triple(last'.args)))
          => last'.outcome = "ok"]_vars
    /\ [](\A c \in issued :
            (last.op = "get_federated_user" /\ last.args = c[1])
            => /\ last.outcome = "ok"
               /\ last.result = {[id |-> c[2], enabled |-> "True"]})

C1_witness ==
    /\ last.op = "get_federated_user"
    /\ last.outcome = "ok"
    /\ \E c \in issued : last.args = c[1] /\ last.result = {[id |-> c[2], enabled |-> "True"]}
    /\ Cardinality(federated_user) = 2
    /\ \E f \in federated_user : Triple(f) = last.args /\ f.display_name = "Bob"

\* C2: create_federated_user with a triple an existing FederatedUser carries
\* fails with Conflict('federated_user') and leaves the three tables as they were.
C2_duplicate_key_conflict ==
    [][(/\ last'.op = "create_federated_user"
        /\ KeyTaken(Triple(last'.args)))
       => /\ last'.outcome = "Conflict:federated_user"
          /\ last'.result = {}
          /\ tables' = tables]_vars

C2_witness ==
    /\ last.op = "create_federated_user"
    /\ last.outcome = "Conflict:federated_user"
    /\ KeyTaken(Triple(last.args))

\* C3: in every reachable state at most one FederatedUser row carries a given
\* (idp_id, protocol_id, unique_id).
C3_key_unique ==
    \A a \in federated_user : \A b \in federated_user :
        Triple(a) = Triple(b) => a = b

C3_witness ==
    /\ Cardinality(federated_user) = 2
    /\ last.op = "create_federated_user"
    /\ last.outcome = "Conflict:federated_user"

\* C4: update_federated_user_display_name is idempotent: a call that directly
\* repeats the previous one, and a call whose key matches no row, change zero
\* rows, raise nothing and leave the tables as they were.
C4_update_idempotent ==
    [][(/\ last'.op = "update_federated_user_display_name"
        /\ \/ last'.again
           \/ ~KeyTaken(<<last'.args[1], last'.args[2], last'.args[3]>>))
       => /\ last'.outcome = "ok"
          /\ last'.rows = 0
          /\ tables' = tables]_vars

C4_witness ==
    /\ last.op = "update_federated_user_display_name"
    /\ last.again
    /\ last.rows = 0
    /\ \E f \in federated_user :
          /\ Triple(f) = <<last.args[1], last.args[2], last.args[3]>>
          /\ f.display_name = last.args[4]
          /\ f.display_name = "Bob"

FederatedOnly(filters) ==
    \A i \in 1..Len(filters) :
        filters[i].name \in {"idp_id", "protocol_id", "unique_id"}

\* C5: get_federated_users under hints that filter only on idp_id, protocol_id
\* and/or unique_id returns exactly the users owning a FederatedUser row that
\* matches every filter.
C5_listing_exact ==
    (last.op = "get_federated_users" /\ FederatedOnly(last.args))
    => /\ last.outcome = "ok"
       /\ last.result =
            {[id |-> u.id, enabled |-> u.enabled] :
                u \in {v \in user :
                        \E f \in federated_user :
                           /\ f.user_id = v.id
                           /\ \A i \in 1..Len(last.args) :
                                \/ last.args[i].name # "idp_id"
                                \/ f.idp_id = last.args[i].value
                           /\ \A i \in 1..Len(last.args) :
                                \/ last.args[i].name # "protocol_id"
                                \/ f.protocol_id = last.args[i].value
                           /\ \A i \in 1..Len(last.args) :
                                \/ last.args[i].name # "unique_id"
                                \/ f.unique_id = last.args[i].value}}

\* Three federated users and a non-local user stored, two filters on different
\* columns, one user listed.
C5_witness ==
    /\ last.op = "get_federated_users"
    /\ Len(last.args) = 2
    /\ FederatedOnly(last.args)
    /\ last.args[1].name # last.args[2].name
    /\ Cardinality(federated_user) = 3
    /\ nonlocal_user # {}
    /\ Cardinality(last.result) = 1

NameTaken(name) == \E n \in nonlocal_user : n.name = name

IdTaken(id) == \E u \in user : u.id = id

\* C6: create_nonlocal_user with a name an existing NonLocalUser carries fails
\* with Conflict('nonlocal_user') and leaves the three tables as they were.
C6_duplicate_name_conflict ==
    [][(/\ last'.op = "create_nonlocal_user"
        /\ "name" \in DOMAIN last'.args
        /\ NameTaken(last'.args["name"]))
       => /\ last'.outcome = "Conflict:nonlocal_user"
          /\ last'.result = {}
          /\ tables' = tables]_vars

\* The name is taken, the id is not.
C6_witness ==
    /\ last.op = "create_nonlocal_user"
    /\ last.outcome = "Conflict:nonlocal_user"
    /\ NameTaken(last.args["name"])
    /\ ~IdTaken(last.args["id"])

\* C7: with the option unset set_last_active_at changes no table, and a row's
\* last_active_at is set only if a call for that user ran with the option set.
C7_inactive_policy_off ==
    /\ [][(last'.op = "set_last_active_at" /\ days_inactive = 0)
          => (tables' = tables /\ last'.outcome = "ok")]_vars
    /\ [](\A u \in user : u.last_active_at # NoTime => u.id \in activated)

\* The option is unset, the call named a stored user, the user has no date.
C7_witness ==
    /\ last.op = "set_last_active_at"
    /\ days_inactive = 0
    /\ \E u \in user : u.id = last.args /\ u.last_active_at = NoTime
    /\ \E u \in user : u.last_active_at # NoTime

\* C8, as claimed: with the option set, set_last_active_at for an id no User
\* carries returns without error and leaves the tables as they were.
C8_missing_user_silent ==
    [][(/\ last'.op = "set_last_active_at"
        /\ days_inactive # 0
        /\ ~IdTaken(last'.args))
       => (last'.outcome = "ok" /\ tables' = tables)]_vars

\* The row a successful create call added.
Created(u) == u \in user' /\ u \notin user

UserIdUnique == \A a \in user : \A b \in user : a.id = b.id => a = b

\* C10, as claimed: no two User rows share an id, and every successful create
\* call returns a User whose id uuid4 generated in that call and no stored
\* User carried.
C10_id_generated ==
    /\ []UserIdUnique
    /\ [][(/\ last'.op \in {"create_federated_user", "create_nonlocal_user"}
           /\ last'.outcome = "ok")
          => \E u \in user' :
               /\ Created(u)
               /\ last'.result = {[id |-> u.id, enabled |-> u.enabled]}
               /\ u.id = uuid4(uuids)
               /\ u.id = last'.uuid
               /\ ~IdTaken(u.id)]_vars

\* C10, amended: no two User rows share an id; a successful
\* create_federated_user returns a User whose id uuid4 generated in that call,
\* a successful create_nonlocal_user returns a User with the id the caller
\* passed; in both cases no stored User carried that id.
C10_id_unique ==
    /\ []UserIdUnique
    /\ [][(/\ last'.op \in {"create_federated_user", "create_nonlocal_user"}
           /\ last'.outcome = "ok")
          => \E u \in user' :
               /\ Created(u)
               /\ last'.result = {[id |-> u.id, enabled |-> u.enabled]}
               /\ IF last'.op = "create_federated_user"
                  THEN u.id = uuid4(uuids) /\ u.id = last'.uuid
                  ELSE u.id = last'.args["id"] /\ last'.uuid = 0
               /\ ~IdTaken(u.id)]_vars

\* A create_nonlocal_user refused for its id alone, next to a federated user.
C10_witness ==
    /\ last.op = "create_nonlocal_user"
    /\ last.outcome = "Conflict:nonlocal_user"
    /\ IdTaken(last.args["id"])
    /\ ~NameTaken(last.args["name"])
    /\ Cardinality(user) = 2
    /\ federated_user # {}
    /\ nonlocal_user # {}

\* C11: get_user raises UserNotFound when no User row has the id, and otherwise
\* returns the filtered dict (no password) of exactly the row with that id;
\* the tables are the same before and after the call.
C11_get_user ==
    [][last'.op = "get_user" =>
          /\ tables' = tables
          /\ IF ~IdTaken(last'.args)
             THEN /\ last'.outcome = "UserNotFound"
                  /\ last'.result = {}
             ELSE /\ last'.outcome = "ok"
                  /\ Cardinality(last'.result) = 1
                  /\ last'.result =
                        {[id |-> u.id, enabled |-> u.enabled] :
                            u \in {x \in user : x.id = last'.args}}]_vars

\* Two users are stored and get_user returned the caller-named one.
C11_witness ==
    /\ last.op = "get_user"
    /\ last.outcome = "ok"
    /\ Cardinality(user) >= 2
    /\ \E u \in user : u.id \in CallerIds /\ last.result = {[id |-> u.id, enabled |-> u.enabled]}

\* C12: get_federated_user raises UserNotFound and returns nothing whenever no
\* FederatedUser row carries exactly the triple asked for, whatever rows agree
\* with it in one or two components; the call leaves the tables as they were.
C12_lookup_exact ==
    [][last'.op = "get_federated_user" =>
          /\ tables' = tables
          /\ ~KeyTaken(last'.args) =>
                /\ last'.outcome = "UserNotFound"
                /\ last'.result = {}]_vars

\* The lookup failed although a stored row agrees with it in two components.
C12_witness ==
    /\ last.op = "get_federated_user"
    /\ last.outcome = "UserNotFound"
    /\ \E f \in federated_user :
          Cardinality({i \in 1..3 : Triple(f)[i] = last.args[i]}) = 2

\* C13: in every state, also after a call that ended in Conflict, each
\* FederatedUser row belongs to exactly one stored User, and every User whose id
\* uuid4 generated (the users create_federated_user creates) has its
\* FederatedUser row.
C13_create_atomic ==
    /\ \A f \in federated_user : Cardinality({u \in user : u.id = f.user_id}) = 1
    /\ \A u \in user : u.id \in 1..uuids => \E f \in federated_user : f.user_id = u.id
    /\ \A c \in issued : \E f \in federated_user : Triple(f) = c[1] /\ f.user_id = c[2]

\* A create_federated_user has just failed with Conflict on a store that holds a
\* federated and a non-local user.
C13_witness ==
    /\ last.op = "create_federated_user"
    /\ last.outcome = "Conflict:federated_user"
    /\ federated_user # {}
    /\ nonlocal_user # {}

\* C18: after update_federated_user_display_name returns without error on a
\* store that holds the triple, the row with that triple has the given
\* display_name, whatever it had before (NULL included), and no other row or
\* table has changed.
C18_update_sets_name ==
    [][(/\ last'.op = "update_federated_user_display_name"
        /\ last'.outcome = "ok"
        /\ KeyTaken(SubSeq(last'.args, 1, 3))) =>
          /\ federated_user' =
                {IF Triple(f) = SubSeq(last'.args, 1, 3)
                 THEN [f EXCEPT !.display_name = last'.args[4]]
                 ELSE f : f \in federated_user}
          /\ user' = user
          /\ nonlocal_user' = nonlocal_user]_vars

\* The calls of the workers that have returned, under the key `triple`.
Returned(ss, triple) ==
    {i \in 1..Len(ss) :
        /\ ss[i].owner \in Workers
        /\ ~ss[i].open
        /\ Triple(ss[i].new[2]) = triple}

\* C14: when calls of create_federated_user with one fresh triple run side by
\* side, in whatever order their steps interleave, each call that returns
\* leaves exactly one FederatedUser row with the triple and one User owning it;
\* at most one of the calls has succeeded, and every other one that has
\* returned failed with Conflict on federated_user and wrote nothing.
C14_concurrent_create ==
    [][\A i \in 1..Len(sessions) :
          (/\ sessions[i].owner \in Workers
           /\ sessions[i].open
           /\ ~sessions'[i].open) =>
             LET triple == Triple(sessions[i].new[2])
                 ok == {j \in Returned(sessions', triple) : sessions'[j].exc = "ok"}
             IN  /\ Cardinality(ok) = 1
                 /\ \A j \in Returned(sessions', triple) \ ok :
                        sessions'[j].exc = "DBDuplicateEntry"
                 /\ i \notin ok =>
                        /\ last'.outcome = "Conflict:federated_user"
                        /\ tables' = tables
                 /\ i \in ok => last'.outcome = "ok"
                 /\ Cardinality({f \in federated_user' : Triple(f) = triple}) = 1
                 /\ \A f \in federated_user' :
                        Triple(f) = triple =>
                          /\ Cardinality({u \in user' : u.id = f.user_id}) = 1
                          /\ \E j \in ok : f = sessions'[j].new[2]]_vars

\* All three workers have returned from calls with one triple; the one that
\* succeeded entered its session last, so the calls that failed ran across it.
C14_witness ==
    \E triple \in Triples :
        /\ Cardinality(Returned(sessions, triple)) = 3
        /\ \E j \in Returned(sessions, triple) :
              /\ sessions[j].exc = "ok"
              /\ \A k \in Returned(sessions, triple) \ {j} :
                    /\ sessions[k].exc = "DBDuplicateEntry"
                    /\ sessions[k].new[1].id < sessions[j].new[1].id

\* C15: whichever way a call ends (return, UserNotFound, Conflict, any other
\* exception), every session it entered has been released when it is over.
C15_sessions_released ==
    \A i \in 1..Len(sessions) : sessions[i].owner = Caller => ~sessions[i].open

\* A lookup that entered two sessions, one inside the other, has failed with
\* UserNotFound, and the exception has gone through both.
C15_witness ==
    /\ last.op = "get_federated_user"
    /\ last.outcome = "UserNotFound"
    /\ Len(sessions) = 2
    /\ \A i \in 1..2 : ~sessions[i].open /\ sessions[i].exc = "UserNotFound"

\* The scopes of the sessions the latest call entered, in order of entry.
Scopes == [i \in 1..Len(sessions) |-> sessions[i].scope]

====
